---------------------------- MODULE Spec2Model ----------------------------
(***************************************************************************)
(* The player-progression engine of interactive-core: class GameLoop of    *)
(* src/src/world-engine.ts over the zone catalog of                        *)
(* src/src/levels/index.ts.                                                *)
(*                                                                         *)
(* JavaScript values are modelled as tagged records, so that a field the   *)
(* catalog does not have reads as undefined and arithmetic on it gives     *)
(* NaN, as in the running program.  Fractions (capture chance, the random  *)
(* draw) are counted in hundredths: 0.5 is 50, 0.95 is 95.                 *)
(***************************************************************************)
EXTENDS Integers, Sequences, FiniteSets

VARIABLES
    player,     \* GameLoop.player : PlayerState
    events,     \* the GameEvents emitted by the last call, in emission order
    call,       \* the last call made on the engine: its name and arguments
    ret,        \* the value the last call returned
    pre,        \* GameLoop.player as it was when the last call began
    fnArgs,     \* arguments of the pure function under study (function specs)
    fnResult,   \* its result
    held,       \* what getPlayerState() returned to a caller that kept it
    heldWas,    \* the player state at the time of that getPlayerState() call
    listeners,  \* GameLoop.listeners : the registered listener functions
    subs,       \* the unsubscribe functions on() has returned, in call order
    dispatches, \* the emit() calls of the last call, in the order they began
    delivered,  \* the listener invocations of the last call, in order
    session,    \* the notebook of an observing subscriber, if one is kept
    tasks       \* the calls made without awaiting their promises, each
                \* with where it stands, kept if the caller works that way

vars == <<player, events, call, ret, pre, fnArgs, fnResult, held, heldWas,
          listeners, subs, dispatches, delivered, session, tasks>>

\* the listener list, the unsubscribe functions handed out, and the record
\* of the last call's dispatching
busVars == <<listeners, subs, dispatches, delivered>>

\* the variables of callers that hold a value the engine returned
viewVars == <<held, heldWas>>

-----------------------------------------------------------------------------
(* JavaScript values *)

Num(n) == [t |-> "number", n |-> n]
NaN == [t |-> "NaN"]
Undefined == [t |-> "undefined"]
JsNull == [t |-> "null"]
JsTrue == [t |-> "boolean", b |-> TRUE]
JsFalse == [t |-> "boolean", b |-> FALSE]

IsNum(v) == v.t = "number"

\* obj.f : a property the object does not have reads as undefined
Field(obj, f) == IF f \in DOMAIN obj THEN obj[f] ELSE Undefined

\* ToNumber: undefined converts to NaN
ToNumber(v) == IF v.t = "number" THEN v ELSE NaN

JsAdd(a, b) ==
    IF IsNum(ToNumber(a)) /\ IsNum(ToNumber(b)) THEN Num(a.n + b.n) ELSE NaN

JsSub(a, b) ==
    IF IsNum(ToNumber(a)) /\ IsNum(ToNumber(b)) THEN Num(a.n - b.n) ELSE NaN

JsMul(a, b) ==
    IF IsNum(ToNumber(a)) /\ IsNum(ToNumber(b)) THEN Num(a.n * b.n) ELSE NaN

\* every comparison with NaN is false
JsLt(a, b) == IsNum(ToNumber(a)) /\ IsNum(ToNumber(b)) /\ a.n < b.n
JsGt(a, b) == IsNum(ToNumber(a)) /\ IsNum(ToNumber(b)) /\ a.n > b.n
JsGe(a, b) == IsNum(ToNumber(a)) /\ IsNum(ToNumber(b)) /\ a.n >= b.n
JsLe(a, b) == IsNum(ToNumber(a)) /\ IsNum(ToNumber(b)) /\ a.n <= b.n

\* Math.max / Math.min return NaN when an argument is NaN
MathMax(a, b) ==
    IF ~IsNum(ToNumber(a)) \/ ~IsNum(ToNumber(b)) THEN NaN
    ELSE IF a.n >= b.n THEN a ELSE b

MathMin(a, b) ==
    IF ~IsNum(ToNumber(a)) \/ ~IsNum(ToNumber(b)) THEN NaN
    ELSE IF a.n <= b.n THEN a ELSE b

-----------------------------------------------------------------------------
(* The zone catalog (levels/index.ts).  Display strings (name, color,      *)
(* description, reward) are left out; an Encounter of the catalog has no   *)
(* level, moves or xp_reward.                                              *)

Enc(id, type, difficulty) == [id |-> id, type |-> type, difficulty |-> difficulty]

ZONES == <<
    [id |-> "recursion-depths", guardian |-> "LUCIDIA", requiredLevel |-> Num(1),
     encounters |-> << Enc("paradox-daemon", "logic", "normal"),
                       Enc("stack-spirit", "logic", "hard"),
                       Enc("lucidia-sentinel", "logic", "legendary") >>],
    [id |-> "gateway-nexus", guardian |-> "ALICE", requiredLevel |-> Num(1),
     encounters |-> << Enc("routing-ghost", "gateway", "normal"),
                       Enc("deadlock-wraith", "gateway", "hard"),
                       Enc("alice-avatar", "gateway", "legendary") >>],
    [id |-> "compute-forge", guardian |-> "OCTAVIA", requiredLevel |-> Num(5),
     encounters |-> << Enc("heat-elemental", "compute", "normal"),
                       Enc("gpu-golem", "compute", "hard"),
                       Enc("octavia-construct", "compute", "legendary") >>],
    [id |-> "crystal-observatory", guardian |-> "PRISM", requiredLevel |-> Num(8),
     encounters |-> << Enc("pattern-mimic", "vision", "normal"),
                       Enc("anomaly-shade", "vision", "hard"),
                       Enc("prism-oracle", "vision", "legendary") >>],
    [id |-> "archive-sanctum", guardian |-> "ECHO", requiredLevel |-> Num(12),
     encounters |-> << Enc("forgotten-thought", "memory", "trivial"),
                       Enc("echo-fragment", "memory", "normal"),
                       Enc("echo-prime", "memory", "legendary") >>],
    [id |-> "vault-terminus", guardian |-> "CIPHER", requiredLevel |-> Num(20),
     encounters |-> << Enc("intrusion-daemon", "security", "hard"),
                       Enc("zero-day-shade", "security", "hard"),
                       Enc("cipher-final", "security", "legendary") >>]
>>

\* Array.prototype.find with the test  x => x.id === id : the first element
\* with that id, else undefined
RECURSIVE FindById(_, _)
FindById(arr, id) ==
    IF arr = <<>> THEN Undefined
    ELSE IF Head(arr).id = id THEN Head(arr)
    ELSE FindById(Tail(arr), id)

\* Array.prototype.includes
getZone(id) == FindById(ZONES, id)

\* mutant: a zone is listed only when its requirement is below the level
getZonesForLevel_Strict(level) ==
    SelectSeq(ZONES, LAMBDA z : JsLt(z.requiredLevel, level))

getZonesForLevel(level) ==
    SelectSeq(ZONES, LAMBDA z : JsLe(z.requiredLevel, level))

Includes(arr, x) == \E i \in 1..Len(arr) : arr[i] = x

-----------------------------------------------------------------------------
(* GameLoop (world-engine.ts).  PlayerState.position is never written      *)
(* after construction and is left out.                                     *)

GameLoopInit ==
    [level |-> Num(1), xp |-> Num(0), agents_captured |-> <<>>,
     current_zone |-> "recursion-depths", party |-> <<>>]

\* emit: every listener is handed the event; the log records the event and the
\* player state a listener reads (getPlayerState) while it is dispatched
Emit(evs, event, p) == Append(evs, [event |-> event, seen |-> p])

getCurrentZone(p) == FindById(ZONES, p.current_zone)

\* the level gate of enterZone: player.level < zone.required_level
LevelTooLow(p, zone) == JsLt(p.level, Field(zone, "required_level"))

\* getPlayerState returns this.player itself: the caller receives a reference
\* to the object the engine goes on assigning to, not a copy of it
PlayerRef == [ref |-> "this.player"]
getPlayerState == PlayerRef

\* what reading through a held value yields while the engine's player is p
Deref(v, p) == IF v = PlayerRef THEN p ELSE v

\* mutant: the event is emitted before the zone is looked up
EnterZoneResult_EmitsFirst(p, zoneId) ==
    LET zone == FindById(ZONES, zoneId)
        evs == Emit(<<>>, [type |-> "zone_enter", zone |-> zone], p)
    IN  IF zone = Undefined
        THEN [player |-> p, events |-> evs, ret |-> JsFalse]
        ELSE IF LevelTooLow(p, zone)
        THEN [player |-> p, events |-> evs, ret |-> JsFalse]
        ELSE [player |-> [p EXCEPT !.current_zone = zoneId],
              events |-> evs, ret |-> JsTrue]

\* mutant: entering the zone the player is already in emits nothing
EnterZoneResult_SkipsSame(p, zoneId) ==
    LET zone == FindById(ZONES, zoneId) IN
    IF zone = Undefined
    THEN [player |-> p, events |-> <<>>, ret |-> JsFalse]
    ELSE IF LevelTooLow(p, zone)
    THEN [player |-> p, events |-> <<>>, ret |-> JsFalse]
    ELSE IF p.current_zone = zoneId
    THEN [player |-> p, events |-> <<>>, ret |-> JsTrue]
    ELSE LET p1 == [p EXCEPT !.current_zone = zoneId] IN
         [player |-> p1,
          events |-> Emit(<<>>, [type |-> "zone_enter", zone |-> zone], p1),
          ret |-> JsTrue]

\* mutant: current_zone is assigned before the zone is looked up
EnterZoneResult_AssignsFirst(p, zoneId) ==
    LET zone == FindById(ZONES, zoneId)
        p1 == [p EXCEPT !.current_zone = zoneId]
    IN  IF zone = Undefined
        THEN [player |-> p1, events |-> <<>>, ret |-> JsFalse]
        ELSE IF LevelTooLow(p, zone)
        THEN [player |-> p1, events |-> <<>>, ret |-> JsFalse]
        ELSE [player |-> p1,
              events |-> Emit(<<>>, [type |-> "zone_enter", zone |-> zone], p1),
              ret |-> JsTrue]

EnterZoneResult(p, zoneId) ==
    LET zone == FindById(ZONES, zoneId) IN
    IF zone = Undefined
    THEN [player |-> p, events |-> <<>>, ret |-> JsFalse]
    ELSE IF LevelTooLow(p, zone)
    THEN [player |-> p, events |-> <<>>, ret |-> JsFalse]
    ELSE LET p1 == [p EXCEPT !.current_zone = zoneId] IN
         [player |-> p1,
          events |-> Emit(<<>>, [type |-> "zone_enter", zone |-> zone], p1),
          ret |-> JsTrue]

\* mutant: the filter tests includes(e), an object among ids, and keeps all
EligibleEncounters_KeepsAll(zone, captured) == zone.encounters

\* zone.encounters.filter(e => !agents_captured.includes(e.id))
EligibleEncounters(zone, captured) ==
    SelectSeq(zone.encounters, LAMBDA e : ~Includes(captured, e.id))

\* Math.floor(Math.random() * n), the draw r counted in hundredths; as a
\* 1-based index
RandomIndex(r, n) == ((r * n) \div 100) + 1

\* mutant: an id the zone does not have falls back to the first encounter of
\* the zone, not the first eligible one
SelectEncounter_FirstOfZone(zone, eligible, encounterId, r) ==
    IF encounterId # ""
    THEN LET found == FindById(zone.encounters, encounterId) IN
         IF found = Undefined THEN zone.encounters[1] ELSE found
    ELSE eligible[RandomIndex(r, Len(eligible))]

\* the selection of triggerEncounter; "" stands for an absent (falsy) id
SelectEncounter(zone, eligible, encounterId, r) ==
    IF encounterId # ""
    THEN LET found == FindById(zone.encounters, encounterId) IN
         IF found = Undefined THEN eligible[1] ELSE found
    ELSE eligible[RandomIndex(r, Len(eligible))]

TriggerEncounterResult(p, encounterId, r) ==
    LET zone == getCurrentZone(p) IN
    IF zone = Undefined
    THEN [player |-> p, events |-> <<>>, ret |-> JsNull]
    ELSE LET eligibleEncounters == EligibleEncounters(zone, p.agents_captured) IN
         IF Len(eligibleEncounters) = 0
         THEN [player |-> p, events |-> <<>>, ret |-> JsNull]
         ELSE LET encounter ==
                      SelectEncounter(zone, eligibleEncounters, encounterId, r) IN
              [player |-> p,
               events |-> Emit(<<>>, [type |-> "encounter",
                                      encounter |-> encounter], p),
               ret |-> encounter]

\* 0.5 + (player.level - encounter.level) * 0.1, in hundredths
CaptureChance(level, encounterLevel) ==
    JsAdd(Num(50), JsMul(JsSub(level, encounterLevel), Num(10)))

\* mutant: the upper clamp is missing
ClampChance_NoCeiling(captureChance) == MathMax(Num(10), captureChance)

\* Math.max(0.1, Math.min(0.95, captureChance)), in hundredths
ClampChance(captureChance) == MathMax(Num(10), MathMin(Num(95), captureChance))

\* mutant: >= in place of >
CaptureMissed_AtChance(draw, chance) == JsGe(Num(draw), chance)

\* the capture is missed when Math.random() > the clamped chance
CaptureMissed(draw, chance) == JsGt(Num(draw), chance)

\* the CapturedAgent built from an encounter
Captured(encounter) ==
    [id |-> encounter.id, name |-> Field(encounter, "agent_name"),
     type |-> encounter.type, level |-> Field(encounter, "level"),
     moves |-> Field(encounter, "moves"),
     hp |-> JsMul(Field(encounter, "level"), Num(15)),
     max_hp |-> JsMul(Field(encounter, "level"), Num(15))]

\* mutant: the length test is missing
PartyPush_NoCap(party, captured) == Append(party, captured)

\* mutant: a full party drops its oldest member to take the new one
PartyPush_DropOldest(party, captured) ==
    IF Len(party) < 6 THEN Append(party, captured)
    ELSE Append(Tail(party), captured)

\* if (party.length < 6) party.push(captured)
PartyPush(party, captured) ==
    IF Len(party) < 6 THEN Append(party, captured) ELSE party

\* gainXP: one threshold test, not a loop
GainXP(p, evs, amount) ==
    LET xp == JsAdd(p.xp, amount)
        xpNeeded == JsMul(p.level, Num(100))
    IN  IF JsGe(xp, xpNeeded)
        THEN LET level == JsAdd(p.level, Num(1))
                 p1 == [p EXCEPT !.xp = JsSub(xp, xpNeeded), !.level = level]
             IN  [player |-> p1,
                  events |-> Emit(evs, [type |-> "level_up", new_level |-> level],
                                  p1)]
        ELSE [player |-> [p EXCEPT !.xp = xp], events |-> evs]

\* mutant: the XP is gained before the capture event is emitted
CaptureAgentResult_XPFirst(p, encounter, draw) ==
    LET captureChance == CaptureChance(p.level, Field(encounter, "level")) IN
    IF CaptureMissed(draw, ClampChance(captureChance))
    THEN [player |-> p, events |-> <<>>, ret |-> JsFalse]
    ELSE LET captured == Captured(encounter)
             p1 == [p EXCEPT !.agents_captured = Append(@, encounter.id),
                             !.party = PartyPush(@, captured)]
             g == GainXP(p1, <<>>, Field(encounter, "xp_reward"))
         IN  [player |-> g.player,
              events |-> Emit(g.events, [type |-> "capture", agent |-> captured],
                              g.player),
              ret |-> JsTrue]

CaptureAgentResult(p, encounter, draw) ==
    LET captureChance == CaptureChance(p.level, Field(encounter, "level")) IN
    IF CaptureMissed(draw, ClampChance(captureChance))
    THEN [player |-> p, events |-> <<>>, ret |-> JsFalse]
    ELSE LET captured == Captured(encounter)
             p1 == [p EXCEPT !.agents_captured = Append(@, encounter.id),
                             !.party = PartyPush(@, captured)]
             evs == Emit(<<>>, [type |-> "capture", agent |-> captured], p1)
             g == GainXP(p1, evs, Field(encounter, "xp_reward"))
         IN  [player |-> g.player, events |-> g.events, ret |-> JsTrue]

-----------------------------------------------------------------------------
(* Listeners.  An engine in the middle of a call is a record g: its player,
   its listeners array, the unsubscribe functions handed out, the emit calls
   and listener invocations of the call so far, the emit call in progress
   (0: none), the nesting depth of engine calls made by listeners, and the
   observer's notebook.  An element of the listeners array is the registered
   function fn; reg tells which on() call pushed it and takes no part in
   any comparison the engine makes. *)

\* how deep a listener lets its own engine calls nest, and the zone it enters
MaxReentry == 1
ReentryZone == "gateway-nexus"

\* on(listener): this.listeners.push(listener), returning a closure over it
Subscribe(g, fn) ==
    [g EXCEPT !.listeners = Append(@, [fn |-> fn, reg |-> Len(g.subs) + 1]),
              !.subs = Append(@, [fn |-> fn, called |-> FALSE])]

\* the closure on() returned as h-th:
\* this.listeners = this.listeners.filter(l => l !== listener)
Unsubscribe(g, h) ==
    [g EXCEPT !.listeners = SelectSeq(@, LAMBDA l : l.fn # g.subs[h].fn),
              !.subs[h].called = TRUE]

\* the unsubscribe function a listener function keeps for fn: the one its
\* latest registration returned (0: fn was never registered)
HandleOf(s, fn) ==
    LET hs == { h \in 1..Len(s) : s[h].fn = fn } IN
    IF hs = {} THEN 0 ELSE CHOOSE h \in hs : \A k \in hs : k <= h

\* a listener calls the unsubscribe function it keeps, if it has one
CallHandle(g, h) == IF h = 0 THEN g ELSE Unsubscribe(g, h)

\* the registrations whose unsubscribe function has not been called
Uncalled(s) == { h \in 1..Len(s) : ~s[h].called }

RECURSIVE EmitOn(_, _)
RECURSIVE DispatchFrom(_, _, _, _, _)
RECURSIVE React(_, _, _)
RECURSIVE EnterZoneOn(_, _)

\* enterZone on a running engine: the assignment, then the emit, which
\* completes before the return
EnterZoneOn(g, zoneId) ==
    LET r == EnterZoneResult(g.player, zoneId)
        g1 == [g EXCEPT !.player = r.player]
    IN  [g |-> IF r.events = <<>> THEN g1 ELSE EmitOn(g1, r.events[1].event),
         ret |-> r.ret]

\* the listener functions callers register:
\*   "observer"  does nothing with the engine
\*   "recorder"  appends the event to the notebook
\*   "quitter"   calls its own unsubscribe function
\*   "remover"   calls the unsubscribe function of "observer"
\*   "reenterer" calls enterZone(ReentryZone) on a zone_enter event, unless
\*               it is already MaxReentry calls deep
React(g, fn, event) ==
    CASE fn = "recorder" ->
             IF g.session = Undefined THEN g
             ELSE [g EXCEPT !.session.received = Append(@, event)]
      [] fn = "quitter" -> CallHandle(g, HandleOf(g.subs, "quitter"))
      [] fn = "remover" -> CallHandle(g, HandleOf(g.subs, "observer"))
      [] fn = "reenterer" ->
             IF event.type = "zone_enter" /\ g.depth < MaxReentry
             THEN [EnterZoneOn([g EXCEPT !.depth = @ + 1], ReentryZone).g
                      EXCEPT !.depth = g.depth]
             ELSE g
      [] OTHER -> g

\* mutant: the loop reads the listeners array of the engine afresh at each
\* step
DispatchFrom_Live(g, arr, i, event, k) ==
    IF i > Len(g.listeners) THEN g
    ELSE LET l == g.listeners[i]
             g1 == [g EXCEPT !.delivered =
                        Append(@, [emit |-> k, pos |-> i, fn |-> l.fn,
                                   reg |-> l.reg, event |-> event])]
         IN  DispatchFrom(React(g1, l.fn, event), arr, i + 1, event, k)

\* forEach from position i on the array arr it was called on: unsubscribing
\* assigns a new array to this.listeners and leaves arr as it is
DispatchFrom(g, arr, i, event, k) ==
    IF i > Len(arr) THEN g
    ELSE LET l == arr[i]
             g1 == [g EXCEPT !.delivered =
                        Append(@, [emit |-> k, pos |-> i, fn |-> l.fn,
                                   reg |-> l.reg, event |-> event])]
         IN  DispatchFrom(React(g1, l.fn, event), arr, i + 1, event, k)

\* mutant: an emit made while another is being dispatched is dropped
EmitOn_DropsNested(g, event) ==
    IF g.current # 0 THEN g
    ELSE LET k == Len(g.dispatches) + 1
             g1 == [g EXCEPT !.dispatches =
                        Append(@, [event |-> event, seen |-> g.player,
                                   snapshot |-> g.listeners,
                                   uncalled |-> Uncalled(g.subs),
                                   parent |-> g.current]),
                             !.current = k]
         IN  [DispatchFrom(g1, g.listeners, 1, event, k)
                 EXCEPT !.current = g.current]

\* emit(event): this.listeners.forEach(l => l(event))
EmitOn(g, event) ==
    LET k == Len(g.dispatches) + 1
        g1 == [g EXCEPT !.dispatches =
                   Append(@, [event |-> event, seen |-> g.player,
                              snapshot |-> g.listeners,
                              uncalled |-> Uncalled(g.subs),
                              parent |-> g.current]),
                        !.current = k]
    IN  [DispatchFrom(g1, g.listeners, 1, event, k) EXCEPT !.current = g.current]

\* the emits of triggerEncounter and captureAgent, each made while the
\* player is as the call had left it by then (no listener function above
\* touches the player outside a zone_enter event)
RECURSIVE EmitEach(_, _, _)
EmitEach(g, evs, i) ==
    IF i > Len(evs) THEN g
    ELSE EmitEach(EmitOn([g EXCEPT !.player = evs[i].seen], evs[i].event),
                  evs, i + 1)

\* mutant: triggerEncounter returns the encounter without emitting it
TriggerEncounterOn_Silent(g, encounterId, r) ==
    LET x == TriggerEncounterResult(g.player, encounterId, r) IN
    [g |-> g, ret |-> x.ret]

TriggerEncounterOn(g, encounterId, r) ==
    LET x == TriggerEncounterResult(g.player, encounterId, r) IN
    [g |-> [EmitEach(g, x.events, 1) EXCEPT !.player = x.player], ret |-> x.ret]

CaptureAgentOn(g, encounter, draw) ==
    LET x == CaptureAgentResult(g.player, encounter, draw) IN
    [g |-> [EmitEach(g, x.events, 1) EXCEPT !.player = x.player], ret |-> x.ret]

\* mutant: gainXP yields to the event loop before it changes anything, so the
\* XP gain and level_up happen when captureAgent is resumed
CaptureAgentSegment_XPAfterAwait(g, encounter, draw, pc) ==
    IF pc = "start"
    THEN LET x == CaptureAgentResult(g.player, encounter, draw) IN
         IF x.ret = JsTrue
         THEN [g |-> EmitOn([g EXCEPT !.player = x.events[1].seen],
                            x.events[1].event),
               ret |-> JsTrue, awaiting |-> JsTrue]
         ELSE [g |-> g, ret |-> x.ret]
    ELSE LET y == GainXP(g.player, <<>>, Field(encounter, "xp_reward")) IN
         [g |-> [EmitEach(g, y.events, 1) EXCEPT !.player = y.player],
          ret |-> JsTrue]

\* captureAgent as the event loop runs it.  From "start" it runs to its only
\* await: lines 291-301 with the whole of gainXP, which has no await of its
\* own and so has returned before `await this.gainXP(...)` suspends the
\* call (a missed draw returns at line 292 without suspending).  "resumed",
\* what is left is `return true`.
CaptureAgentSegment(g, encounter, draw, pc) ==
    IF pc = "start"
    THEN LET o == CaptureAgentOn(g, encounter, draw) IN
         IF o.ret = JsTrue
         THEN [g |-> o.g, ret |-> JsTrue, awaiting |-> JsTrue]
         ELSE o
    ELSE [g |-> g, ret |-> JsTrue]

-----------------------------------------------------------------------------
(* Bounds and inputs *)

\* calls of captureAgent that succeed, per run of Spec
MaxCaptured == 3

\* calls of captureAgent that succeed, per run of SpecParty: past the party's
\* capacity
MaxPartyCaptured == 7

\* the highest level given to ClampChance in SpecChance
MaxLevel == 50

\* zone ids given to enterZone: the starting zone, a zone that requires
\* level 5, one that requires level 20, and an id the catalog does not have
ZoneInputs == {"recursion-depths", "compute-forge", "vault-terminus", "lost-zone"}

\* encounter ids given to triggerEncounter: none, ids of two zones, and an id
\* no zone has
EncounterIdInputs == {"", "paradox-daemon", "gpu-golem", "no-such-encounter"}

\* values of Math.random(), in hundredths
Randoms == {0, 34, 67, 99}
Draws == {10, 11, 50, 51, 96}

\* encounters in the shape captureAgent reads (level, xp_reward, agent_name,
\* moves), as a caller would build them
Template(id, level, xp_reward) ==
    [id |-> id, agent_name |-> id, type |-> "logic", level |-> Num(level),
     moves |-> <<"strike">>, xp_reward |-> Num(xp_reward)]

TemplateInputs ==
    {Template("stack-spirit", 1, 250), Template("lucidia-sentinel", 50, 50)}

\* the encounters given to captureAgent in SpecParty: a catalog record and the
\* templates
PartyInputs == {ZONES[1].encounters[1]} \cup TemplateInputs

\* the other inputs of SpecParty, fewer than in Spec to leave room for the
\* longer runs
PartyZoneInputs == {"gateway-nexus", "lost-zone"}
PartyIdInputs == {"", "paradox-daemon"}
PartyDraws == {10, 96}

-----------------------------------------------------------------------------
(* The calls, each a whole handler *)

\* the engine as a call finds it
Engine ==
    [player |-> player, listeners |-> listeners, subs |-> subs,
     dispatches |-> <<>>, delivered |-> <<>>, current |-> 0, depth |-> 0,
     session |-> session]

\* the line the observer's notebook gets for a call
Noted(c, r) ==
    [call |-> c, ret |-> r, from |-> Len(session.received),
     listeners |-> listeners, level |-> player.level]

\* the promise of a call c made without awaiting it: pending while the call
\* is suspended at an await, settled otherwise
Task(o, c) ==
    [call |-> c, ret |-> o.ret,
     pc |-> IF Field(o, "awaiting") = JsTrue THEN "suspended" ELSE "settled"]

\* a call c that left the engine as o.g and returned o.ret
Return(o, c) ==
    /\ player' = o.g.player
    /\ listeners' = o.g.listeners
    /\ subs' = o.g.subs
    /\ dispatches' = o.g.dispatches
    /\ delivered' = o.g.delivered
    /\ events' = [k \in 1..Len(o.g.dispatches) |->
                      [event |-> o.g.dispatches[k].event,
                       seen |-> o.g.dispatches[k].seen]]
    /\ ret' = o.ret
    /\ pre' = player
    /\ call' = c
    /\ session' = IF session = Undefined THEN Undefined
                  ELSE [o.g.session EXCEPT !.calls = Append(@, Noted(c, o.ret))]
    /\ tasks' = IF tasks.kept
                THEN [tasks EXCEPT !.calls = Append(@, Task(o, c))]
                ELSE tasks
    /\ UNCHANGED <<fnArgs, fnResult, viewVars>>

enterZone(zoneId) ==
    Return(EnterZoneOn(Engine, zoneId),
           [op |-> "enterZone", zoneId |-> zoneId])

triggerEncounter(encounterId, r) ==
    Return(TriggerEncounterOn(Engine, encounterId, r),
           [op |-> "triggerEncounter", encounterId |-> encounterId])

captureAgent(encounter, draw) ==
    Return(CaptureAgentOn(Engine, encounter, draw),
           [op |-> "captureAgent", encounter |-> encounter, draw |-> draw])

\* on(listener); the unsubscribe function returned is the Len(subs')-th
on(fn) ==
    Return([g |-> Subscribe(Engine, fn), ret |-> [unsubscribe |-> Len(subs) + 1]],
           [op |-> "on", listener |-> fn])

\* a call of the h-th unsubscribe function, made between engine calls
unsubscribe(h) ==
    Return([g |-> Unsubscribe(Engine, h), ret |-> Undefined],
           [op |-> "unsubscribe", handle |-> h])

\* captureAgent on the encounter the preceding triggerEncounter returned
captureReturned(draw) ==
    /\ call.op = "triggerEncounter"
    /\ ret # JsNull
    /\ captureAgent(ret, draw)

\* the caller awaits every promise before its next call
NoTasks == [kept |-> FALSE, calls |-> <<>>]

\* private listeners: EventListener[] = []
NoListeners ==
    /\ listeners = <<>>
    /\ subs = <<>>
    /\ dispatches = <<>>
    /\ delivered = <<>>

\* no caller holds a player state yet
NoView == held = Undefined /\ heldWas = Undefined

Init ==
    /\ player = GameLoopInit
    /\ events = <<>>
    /\ call = [op |-> "constructor"]
    /\ ret = Undefined
    /\ pre = GameLoopInit
    /\ fnArgs = Undefined
    /\ fnResult = Undefined
    /\ NoView
    /\ NoListeners
    /\ session = Undefined
    /\ tasks = NoTasks

Next ==
    \/ \E zoneId \in ZoneInputs : enterZone(zoneId)
    \/ \E encounterId \in EncounterIdInputs, r \in Randoms :
           triggerEncounter(encounterId, r)
    \/ \E draw \in Draws :
           /\ Len(player.agents_captured) < MaxCaptured
           /\ captureReturned(draw)
    \/ \E encounter \in TemplateInputs, draw \in Draws :
           /\ Len(player.agents_captured) < MaxCaptured
           /\ captureAgent(encounter, draw)

Spec == Init /\ [][Next]_vars

NextParty ==
    \/ \E zoneId \in PartyZoneInputs : enterZone(zoneId)
    \/ \E encounterId \in PartyIdInputs, r \in Randoms :
           triggerEncounter(encounterId, r)
    \/ \E encounter \in PartyInputs, draw \in PartyDraws :
           /\ Len(player.agents_captured) < MaxPartyCaptured
           /\ captureAgent(encounter, draw)

SpecParty == Init /\ [][NextParty]_vars

\* the capture chance as a function of the two levels
InitChance ==
    /\ player = GameLoopInit
    /\ events = <<>>
    /\ call = [op |-> "constructor"]
    /\ ret = Undefined
    /\ pre = GameLoopInit
    /\ fnArgs \in [level : 1..MaxLevel, encounterLevel : 1..MaxLevel]
    /\ fnResult = Undefined
    /\ NoView
    /\ NoListeners
    /\ session = Undefined
    /\ tasks = NoTasks

ApplyClampChance ==
    /\ fnResult = Undefined
    /\ fnResult' = ClampChance(CaptureChance(Num(fnArgs.level),
                                             Num(fnArgs.encounterLevel)))
    /\ UNCHANGED <<player, events, call, ret, pre, fnArgs, viewVars,
                   busVars, session, tasks>>

NextChance == ApplyClampChance

SpecChance == InitChance /\ [][NextChance]_vars

\* a caller keeps what getPlayerState() returned across later operations
MaxViewCaptured == 2
ViewZoneInputs == {"recursion-depths", "gateway-nexus", "lost-zone"}
ViewDraws == {10, 96}

keepPlayerState ==
    /\ held' = getPlayerState
    /\ heldWas' = player
    /\ call' = [op |-> "getPlayerState"]
    /\ ret' = getPlayerState
    /\ pre' = player
    /\ events' = <<>>
    /\ UNCHANGED <<player, fnArgs, fnResult, busVars, session, tasks>>

NextView ==
    \/ keepPlayerState
    \/ \E zoneId \in ViewZoneInputs : enterZone(zoneId)
    \/ \E encounter \in TemplateInputs, draw \in ViewDraws :
           /\ Len(player.agents_captured) < MaxViewCaptured
           /\ captureAgent(encounter, draw)

SpecView == Init /\ [][NextView]_vars

\* the engine with listeners that are registered, unsubscribed between calls
\* and during dispatch, and that call the engine from inside a dispatch
MaxSubs == 3
MaxBusCaptured == 1
ListenerInputs == {"observer", "quitter", "remover", "reenterer"}
BusZoneInputs == {"recursion-depths", "lost-zone"}
BusIdInputs == {"", "stack-spirit"}
BusRandoms == {0}
BusDraws == {10, 96}

NextBus ==
    \/ \E fn \in ListenerInputs : Len(subs) < MaxSubs /\ on(fn)
    \/ \E h \in 1..Len(subs) : unsubscribe(h)
    \/ \E zoneId \in BusZoneInputs : enterZone(zoneId)
    \/ \E encounterId \in BusIdInputs, r \in BusRandoms :
           triggerEncounter(encounterId, r)
    \/ \E draw \in BusDraws :
           /\ Len(player.agents_captured) < MaxBusCaptured
           /\ captureReturned(draw)

SpecBus == Init /\ [][NextBus]_vars

\* the engine watched by one subscriber that keeps a notebook of the calls
\* made and of the events its listener received
MaxSessionCalls == 5
SessionZoneInputs == {"gateway-nexus", "vault-terminus", "lost-zone"}
SessionIdInputs == {"", "deadlock-wraith"}
SessionRandoms == {0, 99}
SessionDraws == {10, 96}

InitSession ==
    /\ player = GameLoopInit
    /\ events = <<>>
    /\ call = [op |-> "constructor"]
    /\ ret = Undefined
    /\ pre = GameLoopInit
    /\ fnArgs = Undefined
    /\ fnResult = Undefined
    /\ NoView
    /\ NoListeners
    /\ session = [calls |-> <<>>, received |-> <<>>]
    /\ tasks = NoTasks

NextSession ==
    /\ Len(session.calls) < MaxSessionCalls
    /\ \/ listeners = <<>> /\ on("recorder")
       \/ \E zoneId \in SessionZoneInputs : enterZone(zoneId)
       \/ \E encounterId \in SessionIdInputs, r \in SessionRandoms :
              triggerEncounter(encounterId, r)
       \/ \E draw \in SessionDraws : captureReturned(draw)
       \/ \E encounter \in TemplateInputs, draw \in SessionDraws :
              captureAgent(encounter, draw)

SpecSession == InitSession /\ [][NextSession]_vars

\* the engine called by a caller that does not await the promises it gets:
\* enterZone and triggerEncounter have no await and settle at the call;
\* a successful captureAgent is suspended once and resumed by the event loop,
\* oldest first
MaxIssued == 3
AsyncZoneInputs == {"gateway-nexus", "lost-zone"}
AsyncIdInputs == {"", "paradox-daemon"}
AsyncRandoms == {0}
AsyncDraws == {10, 96}

InitAsync ==
    /\ player = GameLoopInit
    /\ events = <<>>
    /\ call = [op |-> "constructor"]
    /\ ret = Undefined
    /\ pre = GameLoopInit
    /\ fnArgs = Undefined
    /\ fnResult = Undefined
    /\ NoView
    /\ NoListeners
    /\ session = Undefined
    /\ tasks = [kept |-> TRUE, calls |-> <<>>]

callCaptureAgent(encounter, draw) ==
    Return(CaptureAgentSegment(Engine, encounter, draw, "start"),
           [op |-> "captureAgent", encounter |-> encounter, draw |-> draw])

\* the suspended calls, as positions in tasks
Suspended == { i \in 1..Len(tasks.calls) : tasks.calls[i].pc = "suspended" }

resumeCaptureAgent ==
    /\ Suspended # {}
    /\ LET i == CHOOSE i \in Suspended : \A j \in Suspended : i <= j
           o == CaptureAgentSegment(Engine, tasks.calls[i].call.encounter,
                                    tasks.calls[i].call.draw, "resumed")
       IN  /\ player' = o.g.player
           /\ listeners' = o.g.listeners
           /\ subs' = o.g.subs
           /\ dispatches' = dispatches \o o.g.dispatches
           /\ delivered' = delivered \o o.g.delivered
           /\ events' = events \o
                  [k \in 1..Len(o.g.dispatches) |->
                      [event |-> o.g.dispatches[k].event,
                       seen |-> o.g.dispatches[k].seen]]
           /\ tasks' = [tasks EXCEPT !.calls[i].pc = "settled",
                                     !.calls[i].ret = o.ret]
    /\ UNCHANGED <<call, ret, pre, session, fnArgs, fnResult, viewVars>>

NextAsync ==
    \/ /\ Len(tasks.calls) < MaxIssued
       /\ \/ \E zoneId \in AsyncZoneInputs : enterZone(zoneId)
          \/ \E encounterId \in AsyncIdInputs, r \in AsyncRandoms :
                 triggerEncounter(encounterId, r)
          \/ \E encounter \in PartyInputs, draw \in AsyncDraws :
                 callCaptureAgent(encounter, draw)
    \/ resumeCaptureAgent

SpecAsync == InitAsync /\ [][NextAsync]_vars

\* the catalog queries as functions of their arguments
MaxQueryLevel == 24
ZoneIdInputs == { ZONES[i].id : i \in 1..Len(ZONES) } \cup {"lost-zone"}

InitZones ==
    /\ player = GameLoopInit
    /\ events = <<>>
    /\ call = [op |-> "constructor"]
    /\ ret = Undefined
    /\ pre = GameLoopInit
    /\ fnArgs \in [level : 0..MaxQueryLevel, id : ZoneIdInputs]
    /\ fnResult = Undefined
    /\ NoView
    /\ NoListeners
    /\ session = Undefined
    /\ tasks = NoTasks

ApplyZoneQueries ==
    /\ fnResult = Undefined
    /\ fnResult' = [zones |-> getZonesForLevel(Num(fnArgs.level)),
                    zone |-> getZone(fnArgs.id)]
    /\ UNCHANGED <<player, events, call, ret, pre, fnArgs, viewVars,
                   busVars, session, tasks>>

NextZones == ApplyZoneQueries

SpecZones == InitZones /\ [][NextZones]_vars

-----------------------------------------------------------------------------
(* Properties *)

\* what the last call was
Entered == call.op = "enterZone"
Triggered == call.op = "triggerEncounter"
CaptureCalled == call.op = "captureAgent"
CaptureSucceeded == CaptureCalled /\ ret = JsTrue

\* the types of the events of the last call, in order
EventTypes == [i \in 1..Len(events) |-> events[i].event.type]

\* C1: level gate.  For every zone z of the catalog, enterZone(z.id) called
\* with player.level < z.requiredLevel returns false, leaves current_zone
\* unchanged and emits no zone_enter event.
C1_LevelGate ==
    \A i \in 1..Len(ZONES) :
        (Entered /\ call.zoneId = ZONES[i].id
                 /\ pre.level.n < ZONES[i].requiredLevel.n)
        => /\ ret = JsFalse
           /\ player.current_zone = pre.current_zone
           /\ events = <<>>

\* the rollover the specification describes: repeat until xp is below the
\* threshold of the level reached
RECURSIVE RolloverLoop(_, _)
RolloverLoop(level, xp) ==
    IF xp >= level * 100
    THEN RolloverLoop(level + 1, xp - level * 100)
    ELSE [level |-> level, xp |-> xp]

\* C2: XP rollover is a loop.  A capture whose reward crosses k thresholds
\* raises level by k and emits k level_up events; from level 1, xp 0 a gain
\* of 250 ends at level 3, xp 50.
C2_XPRolloverLoop ==
    (CaptureSucceeded /\ IsNum(pre.xp)
                      /\ IsNum(Field(call.encounter, "xp_reward")))
    => LET want == RolloverLoop(pre.level.n,
                                pre.xp.n + call.encounter.xp_reward.n)
       IN  /\ player.level = Num(want.level)
           /\ player.xp = Num(want.xp)
           /\ Len(SelectSeq(EventTypes, LAMBDA t : t = "level_up"))
                  = want.level - pre.level.n

\* C3: after a successful captureAgent with a non-negative numeric reward,
\* xp < level * 100.
C3_XPBelowThreshold ==
    (CaptureSucceeded /\ IsNum(Field(call.encounter, "xp_reward"))
                      /\ call.encounter.xp_reward.n >= 0)
    => JsLt(player.xp, JsMul(player.level, Num(100)))

\* C4: the party never has more than 6 members.
C4_PartyAtMostSix == Len(player.party) <= 6

\* a seventh capture has succeeded and the party holds six
C4_Witness ==
    /\ CaptureSucceeded
    /\ Len(player.agents_captured) = 7
    /\ Len(player.party) = 6

\* the chance of the last captureAgent call, from the levels it was given
\* (hundredths); only for an encounter that has a numeric level
ExpectedChance ==
    LET raw == 50 + (pre.level.n - call.encounter.level.n) * 10 IN
    IF raw < 10 THEN 10 ELSE IF raw > 95 THEN 95 ELSE raw

\* the draw of the last captureAgent call is one the code lets succeed: it
\* is within the chance, or the encounter has no level (the chance is NaN
\* and no draw is greater than NaN)
DrawSucceeds ==
    IsNum(Field(call.encounter, "level")) => call.draw <= ExpectedChance

\* the ids of every encounter of the catalog a triggerEncounter could offer
\* in the given player state, whatever the zone and the random draw
Pool(p) ==
    UNION { { EligibleEncounters(ZONES[i], p.agents_captured)[j].id :
                  j \in 1..Len(EligibleEncounters(ZONES[i], p.agents_captured)) } :
            i \in 1..Len(ZONES) }

\* C5: party cap.  A capture that succeeds while the party holds 6 returns
\* true, appends the id to agents_captured (it leaves the eligible pool),
\* emits the capture event, awards the XP and leaves the party as it was.
C5_PartyCap ==
    (CaptureCalled /\ Len(pre.party) = 6 /\ DrawSucceeds)
    => /\ ret = JsTrue
       /\ player.agents_captured = Append(pre.agents_captured, call.encounter.id)
       /\ call.encounter.id \notin Pool(player)
       /\ events # <<>> /\ events[1].event.type = "capture"
       /\ events[1].event.agent.id = call.encounter.id
       /\ player.party = pre.party
       /\ Len(player.party) = 6
       /\ LET reward == Field(call.encounter, "xp_reward")
              spent == IF player.level = pre.level THEN Num(0)
                       ELSE JsMul(pre.level, Num(100))
          IN  JsAdd(player.xp, spent) = JsAdd(pre.xp, reward)

\* a capture of a catalog encounter succeeded on a full party
C5_Witness ==
    /\ CaptureSucceeded
    /\ Len(pre.party) = 6
    /\ call.encounter = ZONES[1].encounters[1]
    /\ ~Includes(pre.agents_captured, call.encounter.id)

\* every encounter of the zone the player is in has been captured
Exhausted(p) ==
    LET zone == getCurrentZone(p) IN
    /\ zone # Undefined
    /\ \A j \in 1..Len(zone.encounters) :
           Includes(p.agents_captured, zone.encounters[j].id)

\* C6: capture exhaustion.  Once every encounter of the current zone is
\* captured, triggerEncounter, with or without an id, returns null and emits
\* no event.
C6_Exhaustion ==
    (Triggered /\ Exhausted(pre)) => (ret = JsNull /\ events = <<>>)

\* triggerEncounter was given the id of a captured encounter of the exhausted
\* zone
C6_Witness ==
    /\ Triggered
    /\ Exhausted(pre)
    /\ call.encounterId = "paradox-daemon"
    /\ ret = JsNull

\* C7: an id in agents_captured is never offered again: triggerEncounter
\* never returns or emits an encounter whose id is captured, also when it is
\* given that id.
C7_NeverOfferedAgain ==
    (Triggered /\ ret # JsNull)
    => /\ ~Includes(player.agents_captured, ret.id)
       /\ \A i \in 1..Len(events) :
              events[i].event.type = "encounter"
              => ~Includes(player.agents_captured, events[i].event.encounter.id)

\* C8: capture-chance clamp.  For every pair of levels the chance is
\* 0.5 + (playerLevel - encounterLevel) * 0.1 clamped into [0.1, 0.95];
\* level 1 against 50 gives 0.1, level 50 against 1 gives 0.95.
C8_ChanceClamp ==
    (fnResult # Undefined)
    => LET raw == 50 + (fnArgs.level - fnArgs.encounterLevel) * 10
           want == IF raw < 10 THEN 10 ELSE IF raw > 95 THEN 95 ELSE raw
       IN  /\ fnResult = Num(want)
           /\ 10 <= fnResult.n /\ fnResult.n <= 95
           /\ (fnArgs.level = 1 /\ fnArgs.encounterLevel = 50) => fnResult = Num(10)
           /\ (fnArgs.level = 50 /\ fnArgs.encounterLevel = 1) => fnResult = Num(95)

\* the chance of level 50 against level 1 has been computed
C8_Witness ==
    /\ fnArgs = [level |-> 50, encounterLevel |-> 1]
    /\ fnResult = Num(95)

C10_CaptureOrder ==
    CaptureSucceeded
    => LET e == call.encounter
           lvl == Field(e, "level")
           agent == events[1].event.agent
           seen == events[1].seen
       IN  /\ events # <<>> /\ events[1].event.type = "capture"
           /\ agent.id = e.id
           /\ agent.hp = agent.max_hp
           /\ agent.hp = IF IsNum(lvl) THEN Num(lvl.n * 15) ELSE NaN
           /\ player.agents_captured = Append(pre.agents_captured, e.id)
           /\ player.party = IF Len(pre.party) < 6 THEN Append(pre.party, agent)
                                                  ELSE pre.party
           \* at the capture event the id and the agent are in, the XP is not
           /\ seen.agents_captured = player.agents_captured
           /\ seen.party = player.party
           /\ seen.xp = pre.xp /\ seen.level = pre.level
           \* one capture event, then at most a level_up
           /\ Len(events) <= 2
           /\ Len(events) = 2 => /\ events[2].event.type = "level_up"
                                 /\ events[2].event.new_level = player.level
           /\ (Len(events) = 2) <=> (player.level # pre.level)
           /\ player.current_zone = pre.current_zone

\* a capture on a full party that also levelled up
C10_Witness ==
    /\ CaptureSucceeded
    /\ Len(pre.party) = 6
    /\ EventTypes = <<"capture", "level_up">>

\* the catalog has a zone with this id
InCatalog(zoneId) == \E i \in 1..Len(ZONES) : ZONES[i].id = zoneId

\* C14: enterZone with an id that is not in the catalog returns false, leaves
\* the whole player state unchanged and emits no event.
C14_UnknownZone ==
    (Entered /\ ~InCatalog(call.zoneId))
    => (ret = JsFalse /\ player = pre /\ events = <<>>)

\* an unknown id was refused after the player had moved and captured
C14_Witness ==
    /\ Entered
    /\ call.zoneId = "lost-zone"
    /\ ret = JsFalse
    /\ pre.current_zone # "recursion-depths"
    /\ pre.agents_captured # <<>>

\* C15: a successful enterZone(id) sets current_zone to id, emits exactly one
\* zone_enter event carrying the catalog record of that zone, returns true
\* and changes no other player field; entering the current zone again leaves
\* the state the same and still emits the event.
C15_EnterZone ==
    (Entered /\ ret = JsTrue)
    => /\ player.current_zone = call.zoneId
       /\ player = [pre EXCEPT !.current_zone = call.zoneId]
       /\ Len(events) = 1
       /\ events[1].event.type = "zone_enter"
       /\ \E i \in 1..Len(ZONES) :
              ZONES[i].id = call.zoneId /\ events[1].event.zone = ZONES[i]
       /\ (pre.current_zone = call.zoneId) => player = pre

\* the zone the player was already in was entered again
C15_Witness ==
    /\ Entered
    /\ ret = JsTrue
    /\ pre.current_zone = call.zoneId
    /\ call.zoneId = "compute-forge"
    /\ Len(events) = 1

\* the encounters of the player's zone that are not captured, as a set of
\* positions in the zone's list
EligiblePositions(p) ==
    LET zone == getCurrentZone(p) IN
    { j \in 1..Len(zone.encounters) :
          ~Includes(p.agents_captured, zone.encounters[j].id) }

\* C16: with a non-empty eligible pool triggerEncounter selects the encounter
\* of the zone with the given id; with an id the zone does not have, the
\* first eligible encounter in list order; with no id, some eligible
\* encounter.  It emits one encounter event carrying the selected encounter,
\* returns the same encounter and leaves the player state as it was.
C16_Selection ==
    (Triggered /\ EligiblePositions(pre) # {})
    => LET zone == getCurrentZone(pre)
           list == zone.encounters
           free == EligiblePositions(pre)
           named == { j \in 1..Len(list) : list[j].id = call.encounterId }
       IN  /\ (call.encounterId # "" /\ named # {})
              => \E j \in named : ret = list[j]
           /\ (call.encounterId # "" /\ named = {})
              => \E j \in free : ret = list[j] /\ \A k \in free : j <= k
           /\ (call.encounterId = "") => \E j \in free : ret = list[j]
           /\ Len(events) = 1
           /\ events[1].event = [type |-> "encounter", encounter |-> ret]
           /\ player = pre

\* an id no zone has was given while the first encounter of the zone was
\* captured and another was not
C16_Witness ==
    /\ Triggered
    /\ call.encounterId = "no-such-encounter"
    /\ 1 \notin EligiblePositions(pre)
    /\ EligiblePositions(pre) # {}
    /\ ret # JsNull

\* C17: current_zone always resolves to a zone of the catalog.
C17_ZoneResolves == InCatalog(player.current_zone)

\* an unknown id was refused while the player was in another zone than the
\* starting one
C17_Witness ==
    /\ Entered
    /\ ~InCatalog(call.zoneId)
    /\ player.current_zone = "vault-terminus"

\* the positions of the catalog zones a level admits
Admitted(level) ==
    { i \in 1..Len(ZONES) : ZONES[i].requiredLevel.n <= level }

\* C19: getZonesForLevel(level) returns exactly the catalog zones whose
\* requiredLevel <= level, in catalog order, and getZone(id) returns the
\* catalog zone with that id, or undefined when there is none.
C19_ZoneQueries ==
    (fnResult # Undefined /\ "zones" \in DOMAIN fnResult)
    => LET ok == Admitted(fnArgs.level)
           zones == fnResult.zones
           zone == fnResult.zone
       IN  /\ Len(zones) = Cardinality(ok)
           /\ \A i \in ok :
                  zones[Cardinality({ j \in ok : j <= i })] = ZONES[i]
           /\ InCatalog(fnArgs.id)
              => \E i \in 1..Len(ZONES) :
                     ZONES[i].id = fnArgs.id /\ zone = ZONES[i]
           /\ ~InCatalog(fnArgs.id) => zone = Undefined

\* a level that equals a requirement was asked for, with an unknown id
C19_Witness ==
    /\ fnResult # Undefined
    /\ "zones" \in DOMAIN fnResult
    /\ fnArgs.level = 5
    /\ Len(fnResult.zones) = 3
    /\ fnResult.zones[3].id = "compute-forge"
    /\ fnArgs.id = "lost-zone"
    /\ fnResult.zone = Undefined

\* C18: a value obtained from getPlayerState() before an operation is not
\* changed by any later enterZone or captureAgent call: its fields stay as
\* they were when it was read.
C18_Snapshot ==
    (held # Undefined) => Deref(held, player) = heldWas

\* the invocations dispatch k of the last call made, in order
DeliveriesOf(k) == SelectSeq(delivered, LAMBDA d : d.emit = k)

\* dispatch k invoked the listeners that were registered when it began, each
\* once, in the order of the array
DeliveredToAll(k) ==
    LET got == DeliveriesOf(k)
        arr == dispatches[k].snapshot
    IN  /\ Len(got) = Len(arr)
        /\ \A i \in 1..Len(arr) :
               /\ got[i].pos = i
               /\ got[i].fn = arr[i].fn
               /\ got[i].reg = arr[i].reg
               /\ got[i].event = dispatches[k].event

\* the unsubscribe functions that were called after the first dispatch of the
\* last call began and before the array arr was read
CalledBefore(arr, uncalledThen) ==
    IF dispatches = <<>> THEN {} ELSE dispatches[1].uncalled \ uncalledThen

\* no function of arr had its unsubscribe function called in hs
Removed(arr, hs) ==
    \A h \in hs : \A i \in 1..Len(arr) : arr[i].fn # subs[h].fn

\* a listener called an unsubscribe function during dispatch k
UnsubscribedDuring(k) ==
    \E i \in 1..Len(delivered) :
        /\ delivered[i].emit = k
        /\ \/ delivered[i].fn = "quitter"
           \/ delivered[i].fn = "remover" /\ HandleOf(subs, "observer") # 0

\* C13: when a listener calls an unsubscribe function, its own or another
\* listener's, during a dispatch, every listener registered when the dispatch
\* began is still invoked exactly once for that event; the removal takes
\* effect for the dispatches that begin later and for the listener list the
\* call leaves behind.  (Nothing in on, the unsubscribe function or emit
\* throws.)
C13_UnsubscribeSafety ==
    /\ \A k \in 1..Len(dispatches) : UnsubscribedDuring(k) => DeliveredToAll(k)
    /\ \A k \in 1..Len(dispatches) :
           Removed(dispatches[k].snapshot,
                   CalledBefore(dispatches[k].snapshot, dispatches[k].uncalled))
    /\ Removed(listeners, CalledBefore(listeners, Uncalled(subs)))

\* the first listener unsubscribed itself, the second unsubscribed the third,
\* and all three got the event; neither removed one is registered afterwards
C13_Witness ==
    /\ call.op = "enterZone"
    /\ Len(dispatches) = 1
    /\ Len(delivered) = 3
    /\ delivered[1].fn = "quitter"
    /\ delivered[2].fn = "remover"
    /\ delivered[3].fn = "observer"
    /\ listeners = << [fn |-> "remover", reg |-> 2] >>

\* how many engine calls deep the dispatch k was made
RECURSIVE DepthOf(_)
DepthOf(k) == IF dispatches[k].parent = 0 THEN 0
              ELSE 1 + DepthOf(dispatches[k].parent)

\* the positions of a listeners array that hold the re-entering listener
Reenterers(arr) == { i \in 1..Len(arr) : arr[i].fn = "reenterer" }

\* C20: a listener that calls enterZone during its own notification does not
\* corrupt dispatch: each such call (within the listener's depth limit) makes
\* a nested dispatch of the nested zone_enter event, which is delivered to
\* all registered listeners in registration order before the outer dispatch
\* resumes, and the outer dispatch delivers its event exactly once to every
\* listener.
C20_Reentrancy ==
    /\ \A k \in 1..Len(dispatches) : DeliveredToAll(k)
    /\ \A k \in 1..Len(dispatches) :
           LET nested == { n \in 1..Len(dispatches) : dispatches[n].parent = k }
               expected == IF /\ dispatches[k].event.type = "zone_enter"
                              /\ DepthOf(k) < MaxReentry
                           THEN Cardinality(Reenterers(dispatches[k].snapshot))
                           ELSE 0
           IN  /\ Cardinality(nested) = expected
               /\ \A n \in nested :
                      /\ dispatches[n].event.type = "zone_enter"
                      /\ dispatches[n].event.zone.id = ReentryZone
    /\ \A a, b, c \in 1..Len(delivered) :
           (a < b /\ b < c /\ delivered[a].emit = delivered[c].emit)
           => delivered[b].emit >= delivered[a].emit
    /\ \A a, b \in 1..Len(delivered) :
           (a < b /\ delivered[b].emit > delivered[a].emit
                  /\ dispatches[delivered[b].emit].parent = delivered[a].emit)
           => \/ delivered[a].fn = "reenterer"
              \/ \E c \in (a + 1)..(b - 1) : delivered[c].emit = delivered[a].emit

\* the second of three listeners re-entered: the nested event went to all
\* three, then the third listener got the outer event
C20_Witness ==
    /\ call.op = "enterZone"
    /\ Len(dispatches) = 2
    /\ dispatches[2].parent = 1
    /\ Len(delivered) = 6
    /\ delivered[2].fn = "reenterer" /\ delivered[2].emit = 1
    /\ delivered[3].emit = 2 /\ delivered[4].emit = 2 /\ delivered[5].emit = 2
    /\ delivered[6].emit = 1 /\ delivered[6].pos = 3
    /\ delivered[6].fn = "observer"
    /\ player.current_zone = ReentryZone

\* dispatch k invoked exactly the registrations in regs, each once, in
\* registration order
DeliveredTo(k, regs) ==
    LET got == DeliveriesOf(k) IN
    /\ { got[i].reg : i \in 1..Len(got) } = regs
    /\ Len(got) = Cardinality(regs)
    /\ \A i, j \in 1..Len(got) : i < j => got[i].reg < got[j].reg

\* C12: every listener registered with on() and not yet unsubscribed is
\* invoked exactly once per emitted event, inside the emitting call and in
\* registration order; once its returned unsubscribe function has been called
\* it is not invoked again; with no listener registered the call emits its
\* events to nobody.
C12_Subscription ==
    /\ \A k \in 1..Len(dispatches) : DeliveredTo(k, dispatches[k].uncalled)
    /\ (listeners = <<>> /\ Len(dispatches) > 0 /\ dispatches[1].snapshot = <<>>)
       => delivered = <<>>

\* the last three lines of the notebook
LastCalls ==
    LET n == Len(session.calls) IN
    [first |-> session.calls[n - 2], second |-> session.calls[n - 1],
     third |-> session.calls[n]]

\* the subscriber was registered, and then saw a successful enterZone, a
\* triggerEncounter that returned an encounter, and a successful captureAgent,
\* one after the other
TurnObserved ==
    /\ session # Undefined
    /\ Len(session.calls) >= 3
    /\ LastCalls.first.call.op = "enterZone" /\ LastCalls.first.ret = JsTrue
    /\ LastCalls.second.call.op = "triggerEncounter"
    /\ LastCalls.second.ret # JsNull
    /\ LastCalls.third.call.op = "captureAgent" /\ LastCalls.third.ret = JsTrue
    /\ \E i \in 1..Len(LastCalls.first.listeners) :
           LastCalls.first.listeners[i].fn = "recorder"

\* what the subscriber received during those three calls
TurnReceived ==
    SubSeq(session.received, LastCalls.first.from + 1, Len(session.received))

\* C11: a subscriber observing a successful enterZone(z), then
\* triggerEncounter(), then a successful captureAgent receives exactly
\* zone_enter, encounter, capture, and then level_up if and only if the
\* capture raised the level, in that order and nothing else; the payloads are
\* the catalog zone z, the encounter triggerEncounter returned and the agent
\* the capture added to the party.
C11_EventFidelity ==
    TurnObserved
    => LET got == TurnReceived
           levelled == player.level # LastCalls.third.level
       IN  /\ Len(got) = IF levelled THEN 4 ELSE 3
           /\ got[1].type = "zone_enter"
           /\ got[1].zone.id = LastCalls.first.call.zoneId
           /\ \E i \in 1..Len(ZONES) : got[1].zone = ZONES[i]
           /\ got[2] = [type |-> "encounter", encounter |-> LastCalls.second.ret]
           /\ got[3].type = "capture"
           /\ got[3].agent = player.party[Len(player.party)]
           /\ got[3].agent.id = LastCalls.third.call.encounter.id
           /\ levelled => got[4] = [type |-> "level_up", new_level |-> player.level]

\* the subscriber saw a zone entered, an encounter triggered there and the
\* returned encounter captured
C11_Witness ==
    /\ TurnObserved
    /\ LastCalls.first.call.zoneId = "gateway-nexus"
    /\ LastCalls.third.call.encounter = LastCalls.second.ret
    /\ LastCalls.second.ret.id = "deadlock-wraith"
    /\ Len(TurnReceived) = 3

\* no element occurs twice in the sequence
NoRepeats(seq) ==
    \A i, j \in 1..Len(seq) : i # j => seq[i] # seq[j]

\* C22: agents_captured behaves as a set that prevents recapture: no id
\* occurs twice in agents_captured and no two party members share an id, so
\* a captureAgent call with an id that is already captured adds no second
\* party entry and awards no second XP.
C22_NoRecapture ==
    /\ NoRepeats(player.agents_captured)
    /\ NoRepeats([i \in 1..Len(player.party) |-> player.party[i].id])
    /\ (CaptureCalled /\ Includes(pre.agents_captured, call.encounter.id))
       => (player.party = pre.party /\ player.xp = pre.xp)

\* the value is a JavaScript number holding an integer of at least least
IsIntegerFrom(v, least) == IsNum(v) /\ v.n \in Int /\ v.n >= least

\* C23: with encounters taken from the zone catalog, player.level is a
\* positive integer that starts at 1 and never decreases, and player.xp is a
\* non-negative integer.
C23_LevelAndXP ==
    /\ IsIntegerFrom(player.level, 1)
    /\ IsIntegerFrom(pre.level, 1) /\ player.level.n >= pre.level.n
    /\ (call.op = "constructor") => player.level = Num(1)
    /\ IsIntegerFrom(player.xp, 0)

\* the player after call c made on player p, the call taken as a whole
AfterCall(p, c) ==
    CASE c.op = "enterZone" -> EnterZoneResult(p, c.zoneId).player
      [] c.op = "triggerEncounter" ->
             TriggerEncounterResult(p, c.encounterId, 0).player
      [] c.op = "captureAgent" ->
             CaptureAgentResult(p, c.encounter, c.draw).player

\* the player after the first n calls kept in tasks, made one after the other on a
\* new engine, each complete before the next
RECURSIVE Replay(_)
Replay(n) == IF n = 0 THEN GameLoopInit
             ELSE AfterCall(Replay(n - 1), tasks.calls[n].call)

\* the events the last call kept in tasks emits, the call taken as a whole
LastCallEvents ==
    LET n == Len(tasks.calls)
        p == Replay(n - 1)
        c == tasks.calls[n].call
    IN  CASE c.op = "enterZone" -> { EnterZoneResult(p, c.zoneId).events }
          [] c.op = "triggerEncounter" ->
                 { TriggerEncounterResult(p, c.encounterId, r).events :
                       r \in AsyncRandoms }
          [] c.op = "captureAgent" ->
                 { CaptureAgentResult(p, c.encounter, c.draw).events }

\* C21: no operation suspends part-way.  Whenever control is with the caller,
\* after a call has handed back or after the event loop has resumed one, the
\* player state is the one the calls made so far produce when each is
\* completed before the next begins, and the last call has emitted all its
\* events, whichever of the calls are still suspended.
C21_NoSuspension ==
    (tasks.kept /\ tasks.calls # <<>>)
    => /\ player = Replay(Len(tasks.calls))
       /\ events \in LastCallEvents

\* two captures were called one after the other and both are still suspended;
\* the second has levelled up on top of the first
C21_Witness ==
    /\ tasks.kept
    /\ Len(tasks.calls) = 2
    /\ tasks.calls[1].call.op = "captureAgent"
    /\ tasks.calls[1].pc = "suspended"
    /\ tasks.calls[2].call.op = "captureAgent"
    /\ tasks.calls[2].pc = "suspended"
    /\ player.level = Num(3)
    /\ Len(events) = 2

=============================================================================
